---- MODULE Spec2Model ----
(***************************************************************************)
(* Model of src/src/cursor.rs: the Cursor<V> stream adapter over an        *)
(* idb::Cursor, with its update_value / delete_value operations, and the   *)
(* store (the idb collaborator) the cursor talks to.                       *)
(*                                                                         *)
(* Option<T> is modelled as a sequence of length 0 (None) or 1 (Some).     *)
(***************************************************************************)
EXTENDS Integers, Sequences, FiniteSets, TLC

\* ---------------------------------------------------------------- bounds
MaxLen == 3      \* longest key range explored
MaxDones == 2    \* polls go on until this many of them have returned completion
MaxWrites == 1   \* number of calls of update_value or delete_value in a run
MaxVersion == 4  \* highest schema version explored

\* ---------------------------------------------------------------- values
\* Raw store values (JsValue). "Null" is the empty sentinel (JsValue::is_null),
\* "Bad" is a raw value serde cannot turn into V.
RawValues == {"A", "B", "Bad", "Null"}
\* "Gone" marks a deleted entry of the store.
Gone == "Gone"
\* Typed values (V). "unenc" is a value whose serialization fails.
TypedValues == {"a", "b", "unenc"}

\* serde_wasm_bindgen::from_value::<V>(js_value): succeeds on these raw values
Decodable(js) == js \in {"A", "B"}
Decode(js) == IF js = "A" THEN "a" ELSE "b"
\* serde_wasm_bindgen::to_value(new_value)
Encodable(v) == v \in {"a", "b"}
Encode(v) == IF v = "a" THEN "A" ELSE "B"

RECURSIVE SeqsUpTo(_)
SeqsUpTo(n) ==
  IF n = 0 THEN {<< >>}
  ELSE LET S == SeqsUpTo(n - 1)
       IN S \cup {Append(s, v) : s \in {t \in S : Len(t) = n - 1}, v \in RawValues}

VARIABLES
  range0,    \* the key range when the cursor was opened (ghost, never changes)
  entries,   \* the store: position -> raw value, or Gone
  cursor,    \* Cursor.cursor  : Option<idb::Cursor>
  pending,   \* Cursor.pending : Option<future>
  answer,    \* the store's answer to the outstanding advance request, if it has answered
  yielded,   \* ghost: the values handed to the consumer so far, with their positions
  hist,      \* ghost: counters and sticky flags over the run; open says that a
             \* handle on the store's cursor exists, dropped that the stream is gone
  event      \* ghost: the last call made on the stream and what it did; its
             \* field n flips at every call, so that a call is always a step

\* src/src/schema.rs: the store's recorded version and one initialization
\* of it with a schema definition
VARIABLE schema

cursorVars == <<range0, entries, cursor, pending, answer, yielded, hist, event>>
vars == <<range0, entries, cursor, pending, answer, yielded, hist, event, schema>>

None == << >>
Some(x) == <<x>>

\* An idb::Cursor: its position and the value it carries for that position.
Handle(p, v) == [pos |-> p, val |-> v]

\* ---------------------------------------------------------------- store
\* The next live position after p, 0 when there is none.
NextPos(p) ==
  LET later == {q \in DOMAIN entries : q > p /\ entries[q] # Gone}
  IN IF later = {} THEN 0 ELSE CHOOSE q \in later : \A r \in later : q <= r

\* Mutant: the cursor is asked to advance by two positions.
AdvanceCount_Two == 1 + 1

\* The count poll_next passes to cursor.advance.
AdvanceCount == 1

\* The position n live entries after p, 0 when the range ends before it.
RECURSIVE Advanced(_, _)
Advanced(p, n) ==
  IF n = 0 THEN p
  ELSE IF NextPos(p) = 0 THEN 0
  ELSE Advanced(NextPos(p), n - 1)

\* Where the advance requested by poll_next takes cursor c.
Target(c) == Advanced(c.pos, AdvanceCount)

\* cursor.value(): the store hands out the cursor's value, or fails.
ValueOutcomes == {"ok", "error"}

\* cursor.advance(1): a request, or an immediate failure. End-of-range
\* (idb::Error::CursorAdvanceFailed) is reported only at the end of the range.
AdvanceOutcomes(c) ==
  IF Target(c) # 0 THEN {"request", "error"}
  ELSE {"request", "adv_failed", "error"}

\* adv_request.await: the answer of the store to an issued request.
AnswerFor(c, kind) ==
  [kind |-> kind,
   cursor |-> IF kind = "ok" /\ Target(c) # 0
              THEN Some(Handle(Target(c), entries[Target(c)]))
              ELSE None]

AnswerOutcomes(c) ==
  IF Target(c) # 0 THEN {AnswerFor(c, "ok"), AnswerFor(c, "error")}
  ELSE {AnswerFor(c, "ok"), AnswerFor(c, "adv_failed"), AnswerFor(c, "error")}

\* ---------------------------------------------------------------- Cursor::new
FirstHandle(r) == IF Len(r) = 0 THEN None ELSE Some(Handle(1, r[1]))

\* Mutant: the constructor ignores its argument and holds a cursor on the range.
new_IgnoresArgument(c) == [cursor |-> FirstHandle(range0), pending |-> None]

new(c) == [cursor |-> c, pending |-> None]

NoEvent ==
  [op |-> "none", n |-> 0, arg |-> "-", started |-> FALSE, pos |-> 0, js |-> "-",
   adv |-> "none", awaited |-> FALSE, store |-> "-", result |-> "-", cause |-> "-", sent |-> 0]

\* No initialization is under way.
SchemaIdle ==
  [phase |-> "idle", stored0 |-> 0, stored |-> 0, latest |-> 0, txn |-> FALSE,
   applies |-> 0, outcome |-> "-", result |-> "-"]

Init ==
  /\ schema = SchemaIdle
  /\ range0 \in SeqsUpTo(MaxLen)
  /\ entries = range0
  /\ \E c \in {None, FirstHandle(range0)} :
       /\ cursor = new(c).cursor
       /\ pending = new(c).pending
       /\ hist = [ctor |-> IF c = None THEN "none" ELSE "some",
                  dones |-> 0, decodeFailed |-> FALSE, faulted |-> FALSE,
                  reads |-> 0, advCalls |-> 0, writes |-> 0, wcalls |-> 0,
                  open |-> c # None, dropped |-> FALSE]
  /\ answer = None
  /\ yielded = << >>
  /\ event = NoEvent

\* ---------------------------------------------------------------- poll_next
\* The async block of poll_next, from cursor.value() up to the await of the
\* advance request. `vres` is the outcome of cursor.value(), `ares` the outcome
\* of cursor.advance(1).
\* Mutant: end-of-range at the advance call is bubbled up like any other error.
FutureStart_EndIsError(c, vres, ares) ==
  IF vres = "error" \/ ares \in {"adv_failed", "error"}
  THEN [state |-> "err", cursor |-> None, value |-> "-"]
  ELSE [state |-> "await", cursor |-> None, value |-> c.val]

FutureStart(c, vres, ares) ==
  IF vres = "error" THEN [state |-> "err", cursor |-> None, value |-> "-"]
  ELSE IF ares = "adv_failed" THEN [state |-> "ok", cursor |-> None, value |-> c.val]
  ELSE IF ares = "error" THEN [state |-> "err", cursor |-> None, value |-> "-"]
  ELSE [state |-> "await", cursor |-> None, value |-> c.val]

\* Mutant: every failure of the awaited advance is taken for end-of-range.
FutureResume_AnyErrorIsEnd(fut, ans) ==
  IF ans.kind \in {"adv_failed", "error"}
  THEN [state |-> "ok", cursor |-> None, value |-> fut.js_value]
  ELSE [state |-> "ok", cursor |-> ans.cursor, value |-> fut.js_value]

\* The rest of the async block, once the awaited advance request has an answer.
FutureResume(fut, ans) ==
  IF ans.kind = "adv_failed" THEN [state |-> "ok", cursor |-> None, value |-> fut.js_value]
  ELSE IF ans.kind = "error" THEN [state |-> "err", cursor |-> None, value |-> "-"]
  ELSE [state |-> "ok", cursor |-> ans.cursor, value |-> fut.js_value]

\* Mutant: the future does not look at the store's answer and stays not ready.
FuturePoll_NeverReady(fut, ans) == [state |-> "await", cursor |-> None, value |-> fut.js_value]

\* pending.as_mut().poll(cx) on a future suspended at the await: not ready while
\* the store has not answered.
FuturePoll(fut, ans) ==
  IF ans = None THEN [state |-> "await", cursor |-> None, value |-> fut.js_value]
  ELSE FutureResume(fut, ans[1])

\* Mutant: the pending operation is borrowed, not taken, and stays in its slot.
PendingAfter_Kept(res, fut) == Some(fut)

\* self.pending after the match on the poll of the future.
PendingAfter(res, fut) == IF res.state = "await" THEN Some(fut) ELSE None

\* Mutant: the held cursor is borrowed for the operation, not taken out of its slot.
CursorAfter_NotTaken(res) ==
  IF res.state = "ok" THEN res.cursor ELSE IF res.state = "await" THEN cursor ELSE None

\* Mutant: the repositioned cursor is not stored back.
CursorAfter_Dropped(res) == None

\* self.cursor after the match on the poll of the future (it was taken before).
CursorAfter(res) == IF res.state = "ok" THEN res.cursor ELSE None

\* What poll_next returns for the outcome of the poll of the future.
PollResult(res) ==
  IF res.state = "await" THEN [result |-> "Pending", cause |-> "-"]
  ELSE IF res.state = "err" THEN [result |-> "Done", cause |-> "error"]
  ELSE IF res.value = "Null" THEN [result |-> "Done", cause |-> "null"]
  ELSE IF ~Decodable(res.value) THEN [result |-> "Done", cause |-> "decode"]
  ELSE [result |-> "Some", cause |-> "-"]

\* How the advance of this operation stands when poll_next returns (ghost):
\* "none" when advance(1) was not called, "inflight" when the request is issued
\* and the store has not answered, else what the store said.
AdvState(vres, ares, ans) ==
  IF vres = "error" THEN "none"
  ELSE IF ares # "request" THEN ares
  ELSE IF ans = None THEN "inflight"
  ELSE ans[1].kind

\* The common tail of poll_next: lines 105-138, with the ghost bookkeeping.
Finish(res, fut, started, sent, adv, awaited, faultNow) ==
  LET r == PollResult(res) IN
  /\ pending' = PendingAfter(res, fut)
  /\ cursor' = CursorAfter(res)
  /\ answer' = None
  /\ yielded' = IF r.result = "Some"
                THEN Append(yielded, [pos |-> fut.cursor.pos, val |-> Decode(res.value)])
                ELSE yielded
  /\ hist' = [hist EXCEPT
       !.dones = @ + (IF r.result = "Done" THEN 1 ELSE 0),
       !.decodeFailed = @ \/ r.cause = "decode",
       !.faulted = @ \/ faultNow,
       !.reads = @ + (IF started THEN 1 ELSE 0),
       !.advCalls = @ + (IF sent = 2 THEN 1 ELSE 0),
       \* the future owns the handle until it ends; then its own is dropped
       \* and the one it returns, if any, is the handle that exists
       !.open = IF res.state = "await" THEN @ ELSE res.state = "ok" /\ res.cursor # None]
  /\ event' = [op |-> "poll", n |-> 1 - event.n, arg |-> "-", started |-> started,
               pos |-> fut.cursor.pos, js |-> fut.js_value, adv |-> adv,
               awaited |-> awaited, store |-> "-",
               result |-> r.result, cause |-> r.cause, sent |-> sent]
  /\ UNCHANGED <<range0, entries, schema>>

\* self.pending.take() finds an operation to resume.
Resumes(p) == p # None

\* poll_next finds a pending operation and polls it again.
PollResume ==
  /\ ~hist.dropped
  /\ hist.dones < MaxDones
  /\ Resumes(pending)
  /\ LET fut == pending[1]
         res == FuturePoll(fut, answer)
     IN Finish(res, fut, FALSE, 0,
               IF answer = None THEN "inflight" ELSE answer[1].kind,
               answer # None,
               answer # None /\ answer[1].kind = "error")

\* poll_next with no pending operation and no cursor.
PollNoCursor ==
  /\ ~hist.dropped
  /\ hist.dones < MaxDones
  /\ ~Resumes(pending)
  /\ cursor = None
  /\ hist' = [hist EXCEPT !.dones = @ + 1]
  /\ event' = [NoEvent EXCEPT !.op = "poll", !.n = 1 - event.n,
                              !.result = "Done", !.cause = "nohandle"]
  /\ UNCHANGED <<range0, entries, cursor, pending, answer, yielded, schema>>

\* poll_next with no pending operation and a held cursor: a new operation.
\* `first` is what the store has to say when the new future is first polled.
PollStart ==
  /\ ~hist.dropped
  /\ hist.dones < MaxDones
  /\ ~Resumes(pending)
  /\ cursor # None
  /\ LET c == cursor[1] IN
     \E vres \in ValueOutcomes, ares \in AdvanceOutcomes(c),
        first \in {None} \cup {Some(a) : a \in AnswerOutcomes(c)} :
       LET start == FutureStart(c, vres, ares)
           fut == [cursor |-> c, js_value |-> IF vres = "ok" THEN c.val ELSE "-"]
           res == IF start.state = "await" THEN FuturePoll(fut, first) ELSE start
       IN /\ (vres = "error" => ares = "request" /\ first = None)
          /\ (ares # "request" => first = None)
          /\ Finish(res, fut, TRUE, IF vres = "ok" THEN 2 ELSE 1,
                    AdvState(vres, ares, first),
                    first # None,
                    \/ vres = "error"
                    \/ ares = "error"
                    \/ (ares = "request" /\ first # None /\ first[1].kind = "error"))

poll_next == PollResume \/ PollNoCursor \/ PollStart

\* The store answers the outstanding advance request.
StoreAnswer ==
  /\ ~hist.dropped
  /\ pending # None
  /\ answer = None
  /\ \E a \in AnswerOutcomes(pending[1].cursor) : answer' = Some(a)
  /\ UNCHANGED <<range0, entries, cursor, pending, yielded, hist, event, schema>>

\* ---------------------------------------------------------------- store writes
\* What the store does with an update or delete request: "ok" carries it out,
\* "reject" refuses it when it is made, "fail" completes it with an error.
WriteOutcomes == {"ok", "reject", "fail"}

StoreApply(store, req, sres) ==
  IF sres # "ok" \/ req.pos \notin DOMAIN store THEN store
  ELSE IF req.op = "update" THEN [store EXCEPT ![req.pos] = req.value]
  ELSE [store EXCEPT ![req.pos] = Gone]

\* ---------------------------------------------------------------- update_value
\* The call of update_value(new_value) on held slot `cur`: the requests it sends
\* to the store and what it returns, `sres` being the store's treatment of a request.
\* Mutant: the update goes to the entry before the cursor's position.
update_value_Previous(cur, new_value, sres) ==
  IF cur = None THEN [result |-> "Ok", cause |-> "nohandle", requests |-> << >>]
  ELSE IF ~Encodable(new_value) THEN [result |-> "Err", cause |-> "encode", requests |-> << >>]
  ELSE [result |-> IF sres = "ok" THEN "Ok" ELSE "Err", cause |-> sres,
        requests |-> <<[op |-> "update", pos |-> cur[1].pos - 1, value |-> Encode(new_value)]>>]

\* Mutant: the results of the encoding and of the store are dropped, not propagated with `?`.
update_value_SwallowsErrors(cur, new_value, sres) ==
  IF cur = None THEN [result |-> "Ok", cause |-> "nohandle", requests |-> << >>]
  ELSE IF ~Encodable(new_value) THEN [result |-> "Ok", cause |-> "encode", requests |-> << >>]
  ELSE [result |-> "Ok", cause |-> sres,
        requests |-> <<[op |-> "update", pos |-> cur[1].pos, value |-> Encode(new_value)]>>]

update_value(cur, new_value, sres) ==
  IF cur = None THEN [result |-> "Ok", cause |-> "nohandle", requests |-> << >>]
  ELSE IF ~Encodable(new_value) THEN [result |-> "Err", cause |-> "encode", requests |-> << >>]
  ELSE [result |-> IF sres = "ok" THEN "Ok" ELSE "Err", cause |-> sres,
        requests |-> <<[op |-> "update", pos |-> cur[1].pos, value |-> Encode(new_value)]>>]

\* ---------------------------------------------------------------- delete_value
\* Mutant: delete_value returns without asking the store for anything.
delete_value_Noop(cur, sres) == [result |-> "Ok", cause |-> "nohandle", requests |-> << >>]

\* Mutant: the delete goes to the entry before the cursor's position.
delete_value_Previous(cur, sres) ==
  IF cur = None THEN [result |-> "Ok", cause |-> "nohandle", requests |-> << >>]
  ELSE [result |-> IF sres = "ok" THEN "Ok" ELSE "Err", cause |-> sres,
        requests |-> <<[op |-> "delete", pos |-> cur[1].pos - 1, value |-> "-"]>>]

delete_value(cur, sres) ==
  IF cur = None THEN [result |-> "Ok", cause |-> "nohandle", requests |-> << >>]
  ELSE [result |-> IF sres = "ok" THEN "Ok" ELSE "Err", cause |-> sres,
        requests |-> <<[op |-> "delete", pos |-> cur[1].pos, value |-> "-"]>>]

\* Mutant: the call takes the held cursor out of its slot, as poll_next does.
SelfAfterWrite_Taken(cur, pend) == [cursor |-> None, pending |-> pend]

\* The stream after update_value / delete_value: both take &self and only
\* borrow the held cursor.
SelfAfterWrite(cur, pend) == [cursor |-> cur, pending |-> pend]

\* A call of update_value or delete_value with its effect on the store.
Write(op, arg, call, sres) ==
  /\ entries' = IF call.requests = << >> THEN entries
                ELSE StoreApply(entries, call.requests[1], sres)
  /\ hist' = [hist EXCEPT !.writes = @ + Len(call.requests), !.wcalls = @ + 1]
  /\ event' = [NoEvent EXCEPT !.op = op, !.n = 1 - event.n, !.arg = arg,
                              !.pos = IF cursor = None THEN 0 ELSE cursor[1].pos,
                              !.store = sres,
                              !.result = call.result, !.cause = call.cause,
                              !.sent = Len(call.requests)]
  /\ cursor' = SelfAfterWrite(cursor, pending).cursor
  /\ pending' = SelfAfterWrite(cursor, pending).pending
  /\ UNCHANGED <<range0, answer, yielded, schema>>

UpdateValue ==
  /\ ~hist.dropped
  /\ hist.wcalls < MaxWrites
  /\ \E new_value \in TypedValues, sres \in WriteOutcomes :
       /\ (cursor = None \/ ~Encodable(new_value)) => sres = "ok"
       /\ Write("update", new_value, update_value(cursor, new_value, sres), sres)

DeleteValue ==
  /\ ~hist.dropped
  /\ hist.wcalls < MaxWrites
  /\ \E sres \in WriteOutcomes :
       /\ cursor = None => sres = "ok"
       /\ Write("delete", "-", delete_value(cursor, sres), sres)

\* ---------------------------------------------------------------- drop
\* Dropping the stream drops its fields: the held cursor and the pending
\* future, with the cursor that future owns.
drop(cur, pend) == [cursor |-> None, pending |-> None, released |-> Len(cur) + Len(pend)]

\* The consumer drops or abandons the stream, in whatever state it is.
Drop ==
  /\ ~hist.dropped
  /\ cursor' = drop(cursor, pending).cursor
  /\ pending' = drop(cursor, pending).pending
  /\ answer' = None
  /\ hist' = [hist EXCEPT !.dropped = TRUE,
                          !.open = @ /\ drop(cursor, pending).released = 0]
  /\ UNCHANGED <<range0, entries, yielded, event, schema>>

Next == poll_next \/ StoreAnswer \/ UpdateValue \/ DeleteValue \/ Drop
Spec == Init /\ [][Next]_vars

\* A consumer that only pulls and keeps pulling, and a store that answers every
\* advance request it was sent.
PullNext == poll_next \/ StoreAnswer
FairSpec == Init /\ [][PullNext]_vars /\ WF_vars(poll_next) /\ WF_vars(StoreAnswer)


\* ---------------------------------------------------------------- Schema
\* Schema::latest() -> u32
Versions == 0..MaxVersion

\* Schema::apply(&self, database, transaction) -> Result<(), Error>: what an
\* implementation may return.
ApplyOutcomes == {"Ok", "Err"}

\* Mutant: the initializer drops the result of apply and records the version.
InitializeResult_Swallows(stored, latest, outcome) == [result |-> "Ok", stored |-> latest]

\* The initializer, once apply has returned: it hands an error back to its
\* caller and leaves the recorded version, or records the latest version.
InitializeResult(stored, latest, outcome) ==
  IF outcome = "Err" THEN [result |-> "Err", stored |-> stored]
  ELSE [result |-> "Ok", stored |-> latest]

SchemaInit ==
  /\ \E v \in Versions, l \in Versions, t \in BOOLEAN :
       schema = [SchemaIdle EXCEPT !.phase = "start", !.stored0 = v, !.stored = v,
                                   !.latest = l, !.txn = t]
  /\ range0 = << >> /\ entries = << >>
  /\ cursor = new(None).cursor /\ pending = new(None).pending
  /\ hist = [ctor |-> "none", dones |-> 0, decodeFailed |-> FALSE, faulted |-> FALSE,
             reads |-> 0, advCalls |-> 0, writes |-> 0, wcalls |-> 0,
             open |-> FALSE, dropped |-> FALSE]
  /\ answer = None /\ yielded = << >> /\ event = NoEvent

\* The stored version is behind: the initializer invokes apply.
SchemaApply ==
  /\ schema.phase = "start"
  /\ schema.stored < schema.latest
  /\ \E o \in ApplyOutcomes :
       schema' = [schema EXCEPT !.phase = "applied", !.outcome = o, !.applies = @ + 1]
  /\ UNCHANGED cursorVars

\* The stored version is up to date: nothing to apply.
SchemaUpToDate ==
  /\ schema.phase = "start"
  /\ schema.stored >= schema.latest
  /\ schema' = [schema EXCEPT !.phase = "done", !.result = "Ok"]
  /\ UNCHANGED cursorVars

\* apply has returned: the initializer aborts or records the version.
SchemaFinish ==
  /\ schema.phase = "applied"
  /\ LET r == InitializeResult(schema.stored, schema.latest, schema.outcome) IN
       schema' = [schema EXCEPT !.phase = IF r.result = "Err" THEN "aborted" ELSE "done",
                                !.stored = r.stored, !.result = r.result]
  /\ UNCHANGED cursorVars

SchemaNext == SchemaApply \/ SchemaUpToDate \/ SchemaFinish
SchemaSpec == SchemaInit /\ [][SchemaNext]_vars

\* ================================================================ claims
Called(op) == event'.n # event.n /\ event'.op = op

AllDecode == \A i \in 1..Len(range0) : Decodable(range0[i])

\* ---------------------------------------------------------------- C1
FreshWellBehaved ==
  /\ hist.ctor = "some" \/ Len(range0) = 0
  /\ AllDecode
  /\ ~hist.faulted
  /\ hist.wcalls = 0

\* C1: over a range of N entries that all decode, with a store that reports no
\* failure but end-of-range and a consumer that only pulls, the values yielded
\* so far are the first entries of the range, in order, each once; a completion
\* is yielded only after all N of them, and the pulls after it yield completion.
C1_YieldsRangeInOrder ==
  FreshWellBehaved =>
    /\ Len(yielded) <= Len(range0)
    /\ \A k \in 1..Len(yielded) : yielded[k] = [pos |-> k, val |-> Decode(range0[k])]
    /\ hist.dones > 0 => Len(yielded) = Len(range0) /\ event.result = "Done"

C1_Witness ==
  /\ FreshWellBehaved
  /\ Len(range0) = 3
  /\ Len(yielded) = 3
  /\ range0[1] # range0[2]
  /\ hist.dones = 2

\* ---------------------------------------------------------------- C2
\* C2: once a pull has yielded completion, every later pull yields completion
\* and no value is yielded any more.
C2_CompletionIsPermanent ==
  [][hist.dones > 0 /\ Called("poll") => event'.result = "Done" /\ yielded' = yielded]_vars

\* ---------------------------------------------------------------- C3
\* C3: after a pull whose decode failed, no entry is yielded by any later pull.
C3_DecodeFailureExhausts ==
  [][hist.decodeFailed => yielded' = yielded]_vars

\* ---------------------------------------------------------------- C4
\* C4: a pull in which the store fails with an error other than end-of-range
\* yields completion and not the value it read; no handle is held and no
\* operation is pending afterwards, and every later pull yields completion.
C4_StoreErrorExhausts ==
  /\ [](hist.faulted => cursor = None /\ pending = None)
  /\ [][hist.faulted' /\ Called("poll") => event'.result = "Done" /\ yielded' = yielded]_vars

C4_Witness ==
  /\ hist.faulted
  /\ AllDecode
  /\ Len(range0) = 3
  /\ Len(yielded) = 1
  /\ hist.wcalls = 0
  /\ hist.dones = 2

\* ---------------------------------------------------------------- C5
\* C5: when the advance of a pull reports end-of-range, at the call or at the
\* await, the value read in that pull is yielded if it is non-empty and
\* decodes, no handle is held afterwards, and the next pull yields completion.
C5_EndOfRangeStillYields ==
  /\ [](event.op = "poll" /\ event.adv = "adv_failed" =>
          /\ cursor = None /\ pending = None
          /\ Decodable(event.js) =>
               /\ event.result = "Some"
               /\ yielded # << >>
               /\ yielded[Len(yielded)] = [pos |-> event.pos, val |-> Decode(event.js)])
  /\ [][event.op = "poll" /\ event.adv = "adv_failed" /\ Called("poll")
          => event'.result = "Done"]_vars

C5_Witness ==
  /\ event.op = "poll"
  /\ event.adv = "adv_failed"
  /\ ~event.started
  /\ event.result = "Some"
  /\ event.pos = 3

\* ---------------------------------------------------------------- C6
\* C6: there is at most one pending advancement; a pull made while one exists
\* resumes it and asks the store for nothing; when a pull returns a value or
\* completion the pending slot is empty.
C6_OnePendingOperation ==
  /\ [](/\ Len(pending) <= 1
        /\ event.op = "poll" /\ event.result \in {"Some", "Done"} => pending = None)
  /\ [][pending # None /\ Called("poll") =>
          /\ ~event'.started
          /\ event'.sent = 0
          /\ hist'.reads = hist.reads
          /\ hist'.advCalls = hist.advCalls]_vars

C6_Witness ==
  /\ event.op = "poll"
  /\ ~event.started
  /\ event.result = "Some"
  /\ pending = None
  /\ cursor # None

\* ---------------------------------------------------------------- C7
\* C7: the pull that yields a value returns without having awaited the store's
\* answer to an advance request: the advance it issued is still in flight or
\* was refused as end-of-range when it was made.
\* So an advance the stream is suspended on is the one of an entry already yielded.
C7_AdvanceAwaitedByNextPull ==
  /\ event.op = "poll" /\ event.result = "Some" =>
       /\ ~event.awaited
       /\ event.adv \in {"inflight", "adv_failed"}
  /\ pending # None => \E k \in 1..Len(yielded) : yielded[k].pos = pending[1].cursor.pos

\* ---------------------------------------------------------------- C8
\* C8: a stream constructed with no handle yields completion on every pull and
\* never asks the store for anything.
C8_NoHandleNoRequests ==
  hist.ctor = "none" =>
    /\ cursor = None /\ pending = None /\ answer = None
    /\ yielded = << >>
    /\ hist.reads = 0 /\ hist.advCalls = 0 /\ hist.writes = 0
    /\ entries = range0
    /\ event.op = "poll" => event.result = "Done" /\ event.sent = 0

C8_Witness ==
  /\ hist.ctor = "none"
  /\ Len(range0) = 3
  /\ hist.dones = 2
  /\ event.op = "poll"

\* ---------------------------------------------------------------- C9
\* C9: update_value with no handle held returns success and sends nothing to
\* the store; with a handle held and the request accepted by the store, the
\* entry at the handle's position holds the encoded value and no other entry
\* has changed.
C9_UpdateValue ==
  [][Called("update") =>
       IF cursor = None
       THEN /\ event'.result = "Ok" /\ event'.sent = 0
            /\ hist'.writes = hist.writes
            /\ entries' = entries
       ELSE Encodable(event'.arg) /\ event'.store = "ok" =>
              /\ event'.result = "Ok"
              /\ entries' = [entries EXCEPT ![cursor[1].pos] = Encode(event'.arg)]]_vars

C9_Witness ==
  /\ event.op = "update"
  /\ event.store = "ok"
  /\ event.sent = 1
  /\ event.pos = 2
  /\ entries[2] # range0[2]
  /\ entries[1] = range0[1]

\* ---------------------------------------------------------------- C10
\* C10: delete_value with no handle held returns success and sends nothing to
\* the store; with a handle held and the request accepted by the store, the
\* entry at the handle's position, and no other, is removed.
C10_DeleteValue ==
  [][Called("delete") =>
       IF cursor = None
       THEN /\ event'.result = "Ok" /\ event'.sent = 0
            /\ hist'.writes = hist.writes
            /\ entries' = entries
       ELSE event'.store = "ok" =>
              /\ event'.result = "Ok"
              /\ entries' = [entries EXCEPT ![cursor[1].pos] = Gone]]_vars

C10_Witness ==
  /\ event.op = "delete"
  /\ event.store = "ok"
  /\ event.sent = 1
  /\ event.pos = 2
  /\ entries[2] = Gone
  /\ entries[1] # Gone

\* ---------------------------------------------------------------- C11
\* C11: update_value and delete_value, whether they succeed or fail, leave the
\* held handle (presence, position, value) and the pending slot as they were.
C11_WritesLeaveStreamState ==
  [][Called("update") \/ Called("delete") => cursor' = cursor /\ pending' = pending]_vars

C11_Witness ==
  /\ event.op = "delete"
  /\ event.result = "Err"
  /\ event.sent = 1
  /\ Len(range0) = 3
  /\ cursor = Some(Handle(2, range0[2]))
  /\ Len(yielded) = 1

\* ---------------------------------------------------------------- C12
\* C12: with a handle held, update_value returns a failure when the encoding
\* fails (and then sends nothing to the store), when the store rejects the
\* request or when the request completes with an error; delete_value returns a
\* failure when the store rejects or fails the delete; neither returns success
\* for a request the store did not carry out.
C12_WriteErrorsPropagate ==
  [][/\ Called("update") /\ cursor # None =>
          /\ ~Encodable(event'.arg) =>
                /\ event'.result = "Err" /\ event'.sent = 0
                /\ hist'.writes = hist.writes /\ entries' = entries
          /\ Encodable(event'.arg) /\ event'.store # "ok" =>
                event'.result = "Err" /\ entries' = entries
          /\ event'.result = "Ok" => Encodable(event'.arg) /\ event'.store = "ok"
     /\ Called("delete") /\ cursor # None =>
          /\ event'.store # "ok" => event'.result = "Err" /\ entries' = entries
          /\ event'.result = "Ok" => event'.store = "ok"]_vars

C12_Witness ==
  /\ event.op = "update"
  /\ event.store = "fail"
  /\ event.result = "Err"
  /\ event.sent = 1
  /\ event.pos = 2
  /\ entries = range0

\* ---------------------------------------------------------------- C13
\* C13: a handle on the store's cursor that exists is owned by the held slot
\* or by the pending operation, never by both and never by neither, so an
\* occupied pending slot means an empty held slot; and dropping the stream, in
\* any state, leaves no handle in existence.
C13_HandleOwnedOnce ==
  /\ Len(cursor) + Len(pending) <= 1
  /\ pending # None => cursor = None
  /\ hist.open <=> (cursor # None \/ pending # None)
  /\ hist.dropped => ~hist.open

C13_Witness ==
  /\ hist.dropped
  /\ event.op = "poll"
  /\ event.result = "Pending"
  /\ event.pos = 2
  /\ NextPos(2) = 3

\* ---------------------------------------------------------------- C14
\* C14: a failure of apply comes back to the caller of the initialization as an
\* error: the initialization ends aborted, the recorded version is the one it
\* found, and success is never reported for an apply that failed.
C14_ApplyFailureAborts ==
  /\ schema.phase \in {"done", "aborted"} /\ schema.outcome = "Err" =>
       /\ schema.phase = "aborted"
       /\ schema.result = "Err"
       /\ schema.stored = schema.stored0
  /\ schema.result = "Ok" => schema.outcome # "Err"

C14_Witness ==
  /\ schema.phase = "aborted"
  /\ schema.stored0 = 2
  /\ schema.latest = 3
  /\ schema.applies = 1
  /\ schema.txn

\* ---------------------------------------------------------------- C15
\* C15 as stated: a pull that has suspended does not suspend again (one
\* suspension for the one store round-trip of the pull).
C15_SuspendsOncePerRoundTrip ==
  [][pending # None /\ Called("poll") => event'.result # "Pending"]_vars

\* C15, amended: a pull returns not-ready only while the one round-trip it
\* issued is unanswered, and a poll made once the store has answered returns a
\* value or completion; every suspended pull eventually returns one of them,
\* and a consumer that keeps pulling eventually receives completion.
C15_PullsTerminate ==
  /\ [][Called("poll") /\ event'.result = "Pending" =>
          /\ answer = None /\ pending' # None
          /\ pending # None => event'.sent = 0 /\ hist'.advCalls = hist.advCalls]_vars
  /\ [][pending # None /\ answer # None /\ Called("poll") =>
          event'.result \in {"Some", "Done"} /\ pending' = None]_vars
  /\ (pending # None) ~> (pending = None)
  /\ <>(hist.dones > 0)

C15_Witness ==
  /\ event.op = "poll"
  /\ ~event.started
  /\ event.awaited
  /\ event.result = "Done"
  /\ event.cause = "null"
  /\ hist.dones = 1
  /\ Len(yielded) = 2

\* ---------------------------------------------------------------- C16
\* C16: constructing the stream asks the store for nothing; a read or an
\* advance request is made only by a pull that starts a new operation, one read
\* and at most one advance per such pull, the advance being by one position;
\* the advance requests made never exceed the pulls that have returned a value
\* or completion by more than one.
C16_LazyAdvance ==
  /\ [](/\ event.op = "none" => hist.reads = 0 /\ hist.advCalls = 0 /\ answer = None
        /\ hist.advCalls <= Len(yielded) + hist.dones + 1
        /\ event.op = "poll" /\ event.result \in {"Some", "Done"} /\ cursor # None =>
             cursor[1].pos = NextPos(event.pos))
  /\ [][hist'.reads # hist.reads \/ hist'.advCalls # hist.advCalls =>
          /\ Called("poll") /\ event'.started
          /\ pending = None /\ cursor # None
          /\ hist'.reads = hist.reads + 1
          /\ hist'.advCalls <= hist.advCalls + 1]_vars

C16_Witness ==
  /\ pending # None
  /\ hist.advCalls = 3
  /\ Len(yielded) + hist.dones = 2
  /\ event.result = "Pending"

\* ---------------------------------------------------------------- C17
\* C17: after a pull has yielded entry i the held handle is on the entry that
\* follows i, or absent when i is the last entry; update_value or delete_value
\* called then changes that following entry and never entry i, and is a no-op
\* after the last entry.
C17_WritesHitFollowingEntry ==
  /\ [](event.op = "poll" /\ event.result = "Some" /\ ~hist.dropped =>
          cursor = IF NextPos(event.pos) = 0 THEN None
                   ELSE Some(Handle(NextPos(event.pos), entries[NextPos(event.pos)])))
  /\ [][event.op = "poll" /\ event.result = "Some"
          /\ (Called("update") \/ Called("delete")) =>
          LET i == event.pos
              next == NextPos(event.pos)
          IN /\ entries'[i] = entries[i]
             /\ \A q \in DOMAIN entries : entries'[q] # entries[q] => q = next
             /\ next = 0 => event'.result = "Ok" /\ event'.sent = 0 /\ entries' = entries
             /\ (next # 0 /\ event'.store = "ok"
                 /\ (event'.op = "update" => Encodable(event'.arg))) =>
                  entries'[next] = IF event'.op = "update" THEN Encode(event'.arg) ELSE Gone]_vars

C17_Witness ==
  /\ event.op = "update"
  /\ event.store = "ok"
  /\ event.pos = 3
  /\ Len(yielded) = 2
  /\ yielded[2].pos = 2
  /\ entries[3] # range0[3]
  /\ entries[2] = range0[2]

\* ---------------------------------------------------------------- C18
\* C18: while a pull is suspended on a pending advancement, update_value and
\* delete_value return success and send nothing to the store, whatever
\* entries remain in the range.
C18_WritesNoopWhileSuspended ==
  [][pending # None /\ (Called("update") \/ Called("delete")) =>
       /\ event'.result = "Ok"
       /\ event'.sent = 0
       /\ hist'.writes = hist.writes
       /\ entries' = entries]_vars

C18_Witness ==
  /\ event.op = "update"
  /\ event.arg = "a"
  /\ event.result = "Ok"
  /\ event.sent = 0
  /\ pending # None
  /\ answer = None
  /\ Target(pending[1].cursor) # 0
====
